---------------------------- MODULE Spec2Model ----------------------------
(***************************************************************************)
(* Model of the scaling engine of src/fetch_process/convert.py: the five   *)
(* scaling methods of class Processing and the dispatcher process_fits.    *)
(*                                                                         *)
(* A pixel is an IEEE-754 value: NaN, +inf, -inf or a finite number.  A    *)
(* finite number is an exact rational n/d (d > 0, lowest terms); log10,    *)
(* sqrt and arcsinh are evaluated through rounded tables/approximations,   *)
(* so each keeps its special values (log10(0) = -inf, sqrt(-1) = NaN,      *)
(* arcsinh(+-inf) = +-inf) and its monotonicity.  Signed zero and rounding *)
(* of the four arithmetic operations are not modelled.                     *)
(* An array is the sequence of its pixels in C order, with its rank.       *)
(***************************************************************************)
EXTENDS Integers, Sequences, FiniteSets

VARIABLES hdul, download_dir, json_dir, pc, call, plane, ran, outcome

vars == <<hdul, download_dir, json_dir, pc, call, plane, ran, outcome>>

---------------------------------------------------------------------------
(* Bounds of the model *)

\* largest number of pixels in the array held by the FITS extension
MaxLen == 3

\* finite pixel values that occur in the files
PixelInts == {-1, 0, 1}

---------------------------------------------------------------------------
(* IEEE values *)

NaN  == [k |-> "nan",  n |-> 0, d |-> 1]
PInf == [k |-> "pinf", n |-> 0, d |-> 1]
NInf == [k |-> "ninf", n |-> 0, d |-> 1]
\* Python's None, the default of scale_min and scale_max
None == [k |-> "none", n |-> 0, d |-> 1]

Abs(i) == IF i < 0 THEN -i ELSE i

RECURSIVE GCD(_, _)
GCD(a, b) == IF b = 0 THEN a ELSE GCD(b, a % b)

\* the rational n/d, d # 0, in lowest terms with a positive denominator
Rat(n, d) ==
    LET g == GCD(Abs(n), Abs(d))
        s == IF d < 0 THEN -1 ELSE 1
    IN  [k |-> "fin", n |-> s * (n \div g), d |-> s * (d \div g)]

Num(i) == [k |-> "fin", n |-> i, d |-> 1]

IsNaN(x)    == x.k = "nan"
IsFinite(x) == x.k = "fin"

Sign(x) == CASE x.k = "pinf" -> 1
             [] x.k = "ninf" -> -1
             [] x.k = "fin"  -> (IF x.n > 0 THEN 1 ELSE IF x.n < 0 THEN -1 ELSE 0)
             [] OTHER        -> 0

\* x < y on non-NaN values
Lt(x, y) ==
    CASE x.k = "ninf" -> y.k # "ninf"
      [] x.k = "pinf" -> FALSE
      [] y.k = "ninf" -> FALSE
      [] y.k = "pinf" -> TRUE
      [] OTHER        -> x.n * y.d < y.n * x.d

Le(x, y) == x = y \/ Lt(x, y)

Neg(x) == CASE x.k = "pinf" -> NInf
            [] x.k = "ninf" -> PInf
            [] x.k = "fin"  -> [k |-> "fin", n |-> -x.n, d |-> x.d]
            [] OTHER        -> NaN

Add(x, y) ==
    CASE IsNaN(x) \/ IsNaN(y)           -> NaN
      [] IsFinite(x) /\ IsFinite(y)     -> Rat(x.n * y.d + y.n * x.d, x.d * y.d)
      [] IsFinite(x)                    -> y
      [] IsFinite(y)                    -> x
      [] x = y                          -> x
      [] OTHER                          -> NaN      \* inf - inf

Sub(x, y) == Add(x, Neg(y))

Mul(x, y) ==
    CASE IsNaN(x) \/ IsNaN(y)           -> NaN
      [] IsFinite(x) /\ IsFinite(y)     -> Rat(x.n * y.n, x.d * y.d)
      [] Sign(x) * Sign(y) > 0          -> PInf
      [] Sign(x) * Sign(y) < 0          -> NInf
      [] OTHER                          -> NaN      \* 0 * inf

\* numpy true division: x/0 is +-inf or NaN (a RuntimeWarning, no exception)
Div(x, y) ==
    CASE IsNaN(x) \/ IsNaN(y)           -> NaN
      [] IsFinite(x) /\ IsFinite(y)     ->
            IF y.n # 0 THEN Rat(x.n * y.d, x.d * y.n)
            ELSE IF x.n > 0 THEN PInf
            ELSE IF x.n < 0 THEN NInf
            ELSE NaN
      [] IsFinite(x)                    -> Num(0)   \* finite / inf
      [] IsFinite(y)                    ->
            IF Sign(x) * (IF Sign(y) < 0 THEN -1 ELSE 1) > 0 THEN PInf ELSE NInf
      [] OTHER                          -> NaN      \* inf / inf

\* np.maximum and np.minimum propagate NaN
Maximum(x, y) == IF IsNaN(x) \/ IsNaN(y) THEN NaN ELSE IF Lt(x, y) THEN y ELSE x
Minimum(x, y) == IF IsNaN(x) \/ IsNaN(y) THEN NaN ELSE IF Lt(y, x) THEN y ELSE x

\* np.clip(x, lo, hi) = minimum(maximum(x, lo), hi); when lo > hi it is hi
Clip(x, lo, hi) == Minimum(Maximum(x, lo), hi)

---------------------------------------------------------------------------
(* numpy elementwise functions and reductions *)

\* log10 of 1, 2, ..., in units of 1/10000
Log10Table == <<0, 3010, 4771, 6021, 6990, 7782, 8451, 9031, 9542, 10000>>

\* np.log10 on the arguments the model produces: integers up to Len(Log10Table)
Log10(x) ==
    CASE IsNaN(x)     -> NaN
      [] x.k = "pinf" -> PInf
      [] x.k = "ninf" -> NaN
      [] x.n < 0      -> NaN
      [] x.n = 0      -> NInf
      [] OTHER        -> Rat(Log10Table[x.n \div x.d], 10000)

\* the largest r in lo..hi with r * r <= v (lo * lo <= v)
RECURSIVE SqrtSearch(_, _, _)
SqrtSearch(v, lo, hi) ==
    IF lo = hi THEN lo
    ELSE LET mid == (lo + hi + 1) \div 2
         IN  IF mid * mid <= v THEN SqrtSearch(v, mid, hi)
             ELSE SqrtSearch(v, lo, mid - 1)

\* np.sqrt, rounded down to a multiple of 1/1000
Sqrt(x) ==
    CASE IsNaN(x)     -> NaN
      [] x.k = "pinf" -> PInf
      [] x.k = "ninf" -> NaN
      [] x.n < 0      -> NaN
      [] OTHER        ->
            LET v == (x.n * 1000000) \div x.d
            IN  Rat(SqrtSearch(v, 0, 1000 * (x.n \div x.d + 1)), 1000)

\* arcsinh of 0, 1/2, 1, 3/2, ..., in units of 1/10000
ArcsinhTable == <<0, 4812, 8814, 11948, 14436, 16472, 18184, 19657, 20947>>

\* np.arcsinh (an odd function) on the multiples of 1/2 the model produces
Arcsinh(x) ==
    CASE IsNaN(x)     -> NaN
      [] x.k = "pinf" -> PInf
      [] x.k = "ninf" -> NInf
      [] OTHER        ->
            LET t == ArcsinhTable[(2 * Abs(x.n)) \div x.d + 1]
            IN  Rat((IF x.n < 0 THEN -1 ELSE 1) * t, 10000)

\* the entries of a that are not NaN
NotNaNs(a) == {a[i] : i \in {j \in DOMAIN a : ~IsNaN(a[j])}}

\* np.nanmin / np.nanmax of a non-empty array: NaN (and a warning) when all
\* entries are NaN
nanmin(a) ==
    LET S == NotNaNs(a)
    IN  IF S = {} THEN NaN ELSE CHOOSE m \in S : \A y \in S : Le(m, y)

nanmax(a) ==
    LET S == NotNaNs(a)
    IN  IF S = {} THEN NaN ELSE CHOOSE m \in S : \A y \in S : Le(y, m)

RECURSIVE Insert(_, _)
Insert(x, s) ==
    IF s = <<>> THEN <<x>>
    ELSE IF Le(x, Head(s)) THEN <<x>> \o s
    ELSE <<Head(s)>> \o Insert(x, Tail(s))

RECURSIVE Sort(_)
Sort(a) == IF a = <<>> THEN <<>> ELSE Insert(Head(a), Sort(Tail(a)))

\* np.percentile(a, q) of a non-empty finite array, linear interpolation
\* between the order statistics around position (n - 1) * q / 100
percentile(a, q) ==
    LET s   == Sort(a)
        pos == (Len(s) - 1) * q
        j   == pos \div 100
        g   == Rat(pos % 100, 100)
    IN  IF j + 2 > Len(s) THEN s[j + 1]
        ELSE Add(s[j + 1], Mul(g, Sub(s[j + 2], s[j + 1])))

---------------------------------------------------------------------------
(* The scaling methods.  Each returns what the call produces: the exception *)
(* it raises or the array it returns, with the (scale_min, scale_max) the   *)
(* formula used.                                                            *)

Raise(exc, msg) ==
    [kind |-> exc, msg |-> msg, value |-> <<>>, lo |-> None, hi |-> None]

Return(arr, lo, hi) ==
    [kind |-> "ok", msg |-> "", value |-> arr, lo |-> lo, hi |-> hi]

\* mutant of valid_data: the mask np.isfinite is dropped
valid_data_unmasked(data) == data

\* data[np.isfinite(data)]
valid_data(data) == SelectSeq(data, IsFinite)

\* mutant of extrema_range: the reductions of an empty array give NaN instead
\* of raising
extrema_range_unguarded(data, scale_min, scale_max) ==
    LET valid == valid_data(data)
    IN  Return(<<>>,
               IF scale_min = None THEN nanmin(valid) ELSE scale_min,
               IF scale_max = None THEN nanmax(valid) ELSE scale_max)

\* "if scale_min is None: scale_min = np.nanmin(valid_data)" and the same for
\* scale_max, as in linear_scaling, log_scaling and asinh_scaling.  np.nanmin
\* and np.nanmax of an empty array raise ValueError ("zero-size array to
\* reduction operation fmin which has no identity").
extrema_range(data, scale_min, scale_max) ==
    LET valid == valid_data(data)
    IN  IF (scale_min = None \/ scale_max = None) /\ valid = <<>>
        THEN Raise("ValueError", "zero-size array to reduction operation")
        ELSE Return(<<>>,
                    IF scale_min = None THEN nanmin(valid) ELSE scale_min,
                    IF scale_max = None THEN nanmax(valid) ELSE scale_max)

\* the percentile branch of sqrt_scaling.  np.percentile of an empty array
\* raises IndexError.
percentile_range(data, scale_min, scale_max, percentiles) ==
    LET valid == valid_data(data)
    IN  IF scale_min # None /\ scale_max # None
        THEN Return(<<>>, scale_min, scale_max)
        ELSE IF valid = <<>> THEN Raise("IndexError", "empty axis")
        ELSE Return(<<>>,
                    IF scale_min = None THEN percentile(valid, percentiles[1])
                    ELSE scale_min,
                    IF scale_max = None THEN percentile(valid, percentiles[2])
                    ELSE scale_max)

\* mutant of linear_scaling: the final np.clip is dropped
linear_scaling_unclipped(data, scale_min, scale_max) ==
    LET r == extrema_range(data, scale_min, scale_max)
    IN  IF r.kind # "ok" THEN r
        ELSE Return([i \in DOMAIN data |-> Div(Sub(data[i], r.lo), Sub(r.hi, r.lo))],
                    r.lo, r.hi)

linear_scaling(data, scale_min, scale_max) ==
    LET r == extrema_range(data, scale_min, scale_max)
    IN  IF r.kind # "ok" THEN r
        ELSE Return([i \in DOMAIN data |->
                        Clip(Div(Sub(data[i], r.lo), Sub(r.hi, r.lo)),
                             Num(0), Num(1))],
                    r.lo, r.hi)

log_scaling(data, scale_min, scale_max) ==
    LET r == extrema_range(data, scale_min, scale_max)
    IN  IF r.kind # "ok" THEN r
        ELSE Return([i \in DOMAIN data |->
                        Div(Log10(Add(Sub(Clip(data[i], r.lo, r.hi), r.lo), Num(1))),
                            Log10(Add(Sub(r.hi, r.lo), Num(1))))],
                    r.lo, r.hi)

sqrt_scaling(data, scale_min, scale_max, percentiles) ==
    LET r == percentile_range(data, scale_min, scale_max, percentiles)
    IN  IF r.kind # "ok" THEN r
        ELSE Return([i \in DOMAIN data |->
                        Clip(Div(Sqrt(Sub(Clip(data[i], r.lo, r.hi), r.lo)),
                                 Sqrt(Sub(r.hi, r.lo))),
                             Num(0), Num(1))],
                    r.lo, r.hi)

\* mutant of asinh_scaling: arcsinh is applied about the centre of the range
asinh_scaling_centred(data, scale_min, scale_max, non_linear) ==
    LET r == extrema_range(data, scale_min, scale_max)
    IN  IF r.kind # "ok" THEN r
        ELSE LET mid    == Div(Add(r.lo, r.hi), Num(2))
                 factor == Arcsinh(Div(Sub(r.hi, mid), non_linear))
             IN  Return([i \in DOMAIN data |->
                            Div(Add(Div(Arcsinh(Div(Sub(data[i], mid), non_linear)),
                                        factor),
                                    Num(1)),
                                Num(2))],
                        r.lo, r.hi)

\* the coercion to float64 (lines 142-143) changes no value of an array that
\* is numeric already
asinh_scaling(data, scale_min, scale_max, non_linear) ==
    LET r == extrema_range(data, scale_min, scale_max)
    IN  IF r.kind # "ok" THEN r
        ELSE LET factor == Arcsinh(Div(Sub(r.hi, r.lo), non_linear))
             IN  Return([i \in DOMAIN data |->
                            Div(Arcsinh(Div(Sub(data[i], r.lo), non_linear)), factor)],
                        r.lo, r.hi)

\* np.arange(257): the bin edges 0, 1, ..., 256
NumEdges == 257

\* np.histogram(data.flatten(), bins=np.arange(257)): bin b counts the entries
\* in [b, b+1), the last bin those in [255, 256]; entries outside [0, 256],
\* NaN and +-inf are counted nowhere
InBin(x, b) ==
    /\ IsFinite(x)
    /\ Le(Num(b), x)
    /\ IF b = NumEdges - 2 THEN Le(x, Num(b + 1)) ELSE Lt(x, Num(b + 1))

\* img_hist[b + 1] is the count of bin b
img_hist(data) ==
    [b \in 1..(NumEdges - 1) |->
        Cardinality({i \in DOMAIN data : InBin(data[i], b - 1)})]

\* a.cumsum() of a non-empty integer array: the running sums, computed by
\* halves to keep the evaluation shallow
RECURSIVE cumsum(_)
cumsum(a) ==
    IF Len(a) = 1 THEN a
    ELSE LET h     == Len(a) \div 2
             left  == cumsum(SubSeq(a, 1, h))
             right == cumsum(SubSeq(a, h + 1, Len(a)))
         IN  left \o [i \in 1..Len(right) |-> left[h] + right[i]]

\* a.max() of a non-empty integer array, by halves
RECURSIVE amax(_)
amax(a) ==
    IF Len(a) = 1 THEN a[1]
    ELSE LET h == Len(a) \div 2
             l == amax(SubSeq(a, 1, h))
             r == amax(SubSeq(a, h + 1, Len(a)))
         IN  IF l > r THEN l ELSE r

\* np.interp(x, bins[:-1], fp) with sample points 0, 1, ..., 255: fp[b + 1] is
\* the value at sample point b; outside the sample points the end values
interp(x, fp) ==
    CASE IsNaN(x)                          -> NaN
      [] Le(x, Num(0))                     -> fp[1]
      [] Le(Num(NumEdges - 2), x)          -> fp[NumEdges - 1]
      [] OTHER ->
            LET b == x.n \div x.d
            IN  Add(fp[b + 1],
                    Mul(Sub(x, Num(b)), Sub(fp[b + 2], fp[b + 1])))

hist_eq_scaling(data) ==
    LET hist == img_hist(data)
        cdf  == cumsum(hist)
        peak == amax(hist)
        top  == amax(cdf)
        \* cdf * float(img_hist.max()) / cdf.max()
        cdf_normalized ==
            [b \in 1..(NumEdges - 1) |-> Div(Mul(Num(cdf[b]), Num(peak)), Num(top))]
    IN  Return([i \in DOMAIN data |-> interp(data[i], cdf_normalized)], None, None)

---------------------------------------------------------------------------
(* The dispatcher *)

Methods == {"asinh", "linear", "log", "sqrt", "hist_eq"}

\* the keyword parameters of each method's signature
Accepted(method) ==
    CASE method = "linear"  -> {"scale_min", "scale_max"}
      [] method = "log"     -> {"scale_min", "scale_max"}
      [] method = "sqrt"    -> {"scale_min", "scale_max", "percentiles"}
      [] method = "asinh"   -> {"scale_min", "scale_max", "non_linear"}
      [] method = "hist_eq" -> {}

\* the default a signature gives a parameter
Default(name) ==
    CASE name = "percentiles" -> <<1, 99>>
      [] name = "non_linear"  -> Num(2)
      [] OTHER                -> None

\* mutant of Binds: keywords the signature does not name are ignored
Binds_lenient(method, kwargs) == TRUE

\* Python binds **kwargs to the signature before the body runs: a keyword the
\* signature does not name is a TypeError
Binds(method, kwargs) == DOMAIN kwargs \subseteq Accepted(method)

\* the value each parameter is bound to: the keyword's, or the default
Bound(method, kwargs) ==
    [p \in Accepted(method) |-> IF p \in DOMAIN kwargs THEN kwargs[p] ELSE Default(p)]

\* the body of the method runs on data with its parameters bound to args
Invoke(method, data, args) ==
    CASE method = "asinh"   ->
            asinh_scaling(data, args.scale_min, args.scale_max, args.non_linear)
      [] method = "linear"  -> linear_scaling(data, args.scale_min, args.scale_max)
      [] method = "log"     -> log_scaling(data, args.scale_min, args.scale_max)
      [] method = "sqrt"    ->
            sqrt_scaling(data, args.scale_min, args.scale_max, args.percentiles)
      [] method = "hist_eq" -> hist_eq_scaling(data)

NotRun == [method |-> "none", args |-> <<>>]

\* self.<method>_scaling(data, **kwargs)
Call(method, data, kwargs) ==
    IF Binds(method, kwargs)
    THEN [res |-> Invoke(method, data, Bound(method, kwargs)),
          ran |-> [method |-> method, args |-> Bound(method, kwargs)]]
    ELSE [res |-> Raise("TypeError", "unexpected keyword argument"), ran |-> NotRun]

\* mutant of Dispatch: an unknown name falls back to linear scaling
Dispatch_default(scaling_method, data, kwargs) ==
    IF scaling_method \in Methods
    THEN Call(scaling_method, data, kwargs)
    ELSE Call("linear", data, <<>>)

\* the if / elif chain on scaling_method
Dispatch(scaling_method, data, kwargs) ==
    IF scaling_method \in Methods
    THEN Call(scaling_method, data, kwargs)
    ELSE [res |-> Raise("ValueError", "Unknown scaling method"), ran |-> NotRun]

\* mutant of Renormalize: the final pass is skipped
Renormalize_skipped(scaled_data) == scaled_data

\* (scaled_data - nanmin) / (nanmax - nanmin)
Renormalize(scaled_data) ==
    LET lo == nanmin(scaled_data)
        hi == nanmax(scaled_data)
    IN  [i \in DOMAIN scaled_data |-> Div(Sub(scaled_data[i], lo), Sub(hi, lo))]

\* the length of one plane of a rank-3 array
PlaneLen(h) == Len(h.pix) \div h.shape0

\* "if data.ndim == 3: data = data[frame]"; any other rank is left as it is
Extract(h, frame) ==
    IF h.ndim = 3
    THEN [ndim |-> 2, pix |-> SubSeq(h.pix, frame * PlaneLen(h) + 1,
                                            (frame + 1) * PlaneLen(h))]
    ELSE [ndim |-> h.ndim, pix |-> h.pix]

process_fits(h, scaling_method, frame, kwargs) ==
    LET data == Extract(h, frame)
        d    == Dispatch(scaling_method, data.pix, kwargs)
    IN  IF d.res.kind # "ok" THEN d
        ELSE [res |-> Return(Renormalize(d.res.value), d.res.lo, d.res.hi),
              ran |-> d.ran]

---------------------------------------------------------------------------
(* Inputs *)

Pixels == {Num(v) : v \in PixelInts} \cup {NaN, PInf, NInf}

\* the arrays of 1..MaxLen pixels
Arrays == UNION {[1..n -> Pixels] : n \in 1..MaxLen}

Ranks == 1..4

\* the lengths of axis 0 of a rank-3 array
Shape0s == {1, 2}

\* the array of the FITS extension hdul[1]: its rank, the length of its axis 0
\* (modelled for rank 3 only) and its pixels
Hdus ==
    {[ndim |-> r, shape0 |-> f, pix |-> a] :
        r \in Ranks, f \in Shape0s, a \in Arrays}

ValidHdu(h) ==
    IF h.ndim = 3 THEN Len(h.pix) % h.shape0 = 0 ELSE h.shape0 = 1

\* the frame indices for which the read of the plane succeeds (fits.open,
\* hdul[1].data, data[frame]); an index outside axis 0 raises IndexError
\* before the dispatch and is left to the caller
Frames(h) == IF h.ndim = 3 THEN 0..(h.shape0 - 1) ELSE {0}

MethodNames == Methods \cup {"gamma"}

ParamNames == {"scale_min", "scale_max", "percentiles", "non_linear"}

ScaleArgs == {Num(-1), Num(0), Num(1)}

PercentileArgs == {<<1, 99>>, <<0, 100>>, <<25, 75>>}

NonLinearArgs == {Num(1), Num(2)}

\* what stands for "keyword not given" while the dictionaries are built
Absent(name) == IF name = "percentiles" THEN <<>> ELSE None

\* the keyword dictionaries over the parameter names in names: every choice of
\* a value or of no keyword for each name
Dicts(names) ==
    {[p \in {q \in names : full[q] # Absent(q)} |-> full[p]] :
        full \in [scale_min   : ScaleArgs \cup {None},
                  scale_max   : ScaleArgs \cup {None},
                  percentiles : PercentileArgs \cup {<<>>},
                  non_linear  : NonLinearArgs \cup {None}]}

\* the **kwargs given to process_fits: nothing, one keyword, or both bounds
Kwargs ==
    {kw \in Dicts(ParamNames) :
        \/ Cardinality(DOMAIN kw) <= 1
        \/ /\ DOMAIN kw = {"scale_min", "scale_max"}
           /\ kw.scale_min # Num(0)
           /\ kw.scale_max # Num(0)}

NoCall   == [op |-> "none", method |-> "", frame |-> 0, kwargs |-> <<>>]
NoPlane  == [ndim |-> 0, pix |-> <<>>]
NoResult == Raise("none", "")

---------------------------------------------------------------------------
(* The state machine: a caller holding a Processing instance and the array  *)
(* of a FITS file calls process_fits, or one of the scaling methods on the  *)
(* array itself, and takes the result or catches the exception.             *)

Init ==
    /\ hdul \in {h \in Hdus : ValidHdu(h)}
    /\ download_dir = "../nebulanet/public/processed_png/"
    /\ json_dir = "./"
    /\ pc = "idle"
    /\ call = NoCall
    /\ plane = NoPlane
    /\ ran = NotRun
    /\ outcome = NoResult

ProcessFits ==
    /\ pc = "idle"
    /\ \E m \in MethodNames, f \in Frames(hdul), kw \in Kwargs :
          LET r == process_fits(hdul, m, f, kw)
          IN  /\ call' = [op |-> "process_fits", method |-> m, frame |-> f,
                          kwargs |-> kw]
              /\ plane' = Extract(hdul, f)
              /\ ran' = r.ran
              /\ outcome' = r.res
    /\ pc' = "done"
    /\ UNCHANGED <<hdul, download_dir, json_dir>>

\* mutant of Scaling: the result is written into the caller's array
Scaling_in_place(method) ==
    /\ \E kw \in Dicts(Accepted(method)) :
          LET r == Invoke(method, hdul.pix, Bound(method, kw))
          IN  /\ call' = [op |-> "scaling", method |-> method, frame |-> 0,
                          kwargs |-> kw]
              /\ ran' = [method |-> method, args |-> Bound(method, kw)]
              /\ outcome' = r
              /\ hdul' = IF r.kind = "ok" THEN [hdul EXCEPT !.pix = r.value] ELSE hdul
    /\ plane' = [ndim |-> hdul.ndim, pix |-> hdul.pix]
    /\ pc' = "done"
    /\ UNCHANGED <<download_dir, json_dir>>

\* a direct call self.<method>_scaling(hdul[1].data, **kw)
Scaling(method) ==
    /\ \E kw \in Dicts(Accepted(method)) :
          /\ call' = [op |-> "scaling", method |-> method, frame |-> 0,
                      kwargs |-> kw]
          /\ ran' = [method |-> method, args |-> Bound(method, kw)]
          /\ outcome' = Invoke(method, hdul.pix, Bound(method, kw))
    /\ plane' = [ndim |-> hdul.ndim, pix |-> hdul.pix]
    /\ pc' = "done"
    /\ UNCHANGED <<hdul, download_dir, json_dir>>

LinearScaling == pc = "idle" /\ Scaling("linear")

LogScaling == pc = "idle" /\ Scaling("log")

SqrtScaling == pc = "idle" /\ Scaling("sqrt")

HistEqScaling == pc = "idle" /\ Scaling("hist_eq")

AsinhScaling == pc = "idle" /\ Scaling("asinh")

\* the caller takes the result or catches the exception
Finish ==
    /\ pc = "done"
    /\ pc' = "idle"
    /\ call' = NoCall
    /\ plane' = NoPlane
    /\ ran' = NotRun
    /\ outcome' = NoResult
    /\ UNCHANGED <<hdul, download_dir, json_dir>>

\* process_fits on the arrays of every rank
Next == ProcessFits \/ Finish

Spec == Init /\ [][Next]_vars

\* every method, called directly and through process_fits, on rank-2 arrays
InitMethods == Init /\ hdul.ndim = 2

NextMethods ==
    \/ ProcessFits
    \/ LinearScaling
    \/ LogScaling
    \/ SqrtScaling
    \/ HistEqScaling
    \/ AsinhScaling
    \/ Finish

SpecMethods == InitMethods /\ [][NextMethods]_vars

---------------------------------------------------------------------------
(* Properties *)

Returned == pc = "done" /\ outcome.kind = "ok"

ViaProcessFits == pc = "done" /\ call.op = "process_fits"

Values(a) == {a[i] : i \in DOMAIN a}

IsFin(x) == x.k = "fin"

\* the finite entries of an array, in order
FiniteEntries(a) == SelectSeq(a, IsFin)

InUnitInterval(x) == x.k = "nan" \/ (x.k = "fin" /\ 0 <= x.n /\ x.n <= x.d)

\* C1: whatever the method and the plane, every entry of the array returned by
\* process_fits is NaN or lies in [0, 1].
C1_OutputInUnitInterval ==
    (ViaProcessFits /\ Returned) =>
        \A i \in DOMAIN outcome.value : InUnitInterval(outcome.value[i])

\* hist_eq on a plane whose equalized values exceed 1 (the peak count is 2):
\* the final pass brought them back to [0, 1]
C1_Witness ==
    /\ ViaProcessFits /\ Returned
    /\ call.method = "hist_eq"
    /\ \E i \in DOMAIN plane.pix :
          Lt(Num(1), hist_eq_scaling(plane.pix).value[i])
    /\ {Num(0), Num(1)} \subseteq Values(outcome.value)

\* C2: process_fits with a name that is none of the five methods raises
\* ValueError("Unknown scaling method"): no scaling method ran and no array is
\* returned.
C2_UnknownMethodRejected ==
    (ViaProcessFits /\ call.method \notin {"asinh", "linear", "log", "sqrt", "hist_eq"}) =>
        /\ outcome.kind = "ValueError"
        /\ outcome.msg = "Unknown scaling method"
        /\ outcome.value = <<>>
        /\ ran.method = "none"

C2_Witness ==
    /\ ViaProcessFits
    /\ call.method = "gamma"
    /\ call.kwargs = <<>>
    /\ outcome.kind = "ValueError"

\* an array all of whose entries are one finite value
IsConstantFinite(a) ==
    /\ a # <<>>
    /\ IsFin(a[1])
    /\ \A i \in DOMAIN a : a[i] = a[1]

\* C3: on an all-constant finite plane with the range derived from the data,
\* process_fits with any of the five methods either raises or returns an
\* array of finite values, never NaN or infinity.
C3_DegenerateRangeDefined ==
    (ViaProcessFits /\ call.method \in Methods /\ call.kwargs = <<>>
                    /\ IsConstantFinite(plane.pix)) =>
        \/ outcome.kind \notin {"ok", "none"}
        \/ /\ outcome.kind = "ok"
           /\ \A i \in DOMAIN outcome.value : IsFin(outcome.value[i])

\* C4: a method that has to derive a bound from an array with no finite entry
\* raises (ValueError from np.nanmin / np.nanmax, IndexError from
\* np.percentile, each naming the empty array); it resolves no range and
\* returns no array.
C4_EmptyDataRaises ==
    (/\ pc = "done"
     /\ ran.method \in {"linear", "log", "sqrt", "asinh"}
     /\ FiniteEntries(plane.pix) = <<>>
     /\ {"scale_min", "scale_max"} \ DOMAIN call.kwargs # {}) =>
        /\ outcome.kind \in {"ValueError", "IndexError"}
        /\ outcome.msg \in {"zero-size array to reduction operation", "empty axis"}
        /\ outcome.value = <<>>
        /\ outcome.lo = None
        /\ outcome.hi = None

C4_Witness ==
    /\ pc = "done"
    /\ call.op = "scaling"
    /\ call.method = "sqrt"
    /\ plane.pix = <<NaN, PInf>>
    /\ DOMAIN call.kwargs = {"scale_max"}
    /\ outcome.kind = "IndexError"

\* C5: process_fits on data whose rank is neither 2 nor 3 fails before any
\* scaling method runs.
C5_UnsupportedRankRejected ==
    (ViaProcessFits /\ hdul.ndim \notin {2, 3}) =>
        /\ outcome.kind \notin {"ok", "none"}
        /\ ran.method = "none"

\* the keywords each method's signature does not take
Unsupported(method) ==
    CASE method = "hist_eq" -> {"scale_min", "scale_max", "percentiles", "non_linear"}
      [] method = "linear"  -> {"percentiles", "non_linear"}
      [] method = "log"     -> {"percentiles", "non_linear"}
      [] method = "sqrt"    -> {"non_linear"}
      [] method = "asinh"   -> {"percentiles"}

\* C6: a keyword of process_fits that the selected method does not take raises
\* TypeError before the method's body runs, and no array is returned; the
\* keywords it does take reach the method with the values given.
C6_KeywordsCheckedAtDispatch ==
    (ViaProcessFits /\ call.method \in Methods) =>
        IF DOMAIN call.kwargs \cap Unsupported(call.method) # {}
        THEN /\ outcome.kind = "TypeError"
             /\ outcome.value = <<>>
             /\ ran.method = "none"
        ELSE /\ ran.method = call.method
             /\ \A p \in DOMAIN call.kwargs : ran.args[p] = call.kwargs[p]

C6_Witness ==
    /\ ViaProcessFits
    /\ call.method = "hist_eq"
    /\ DOMAIN call.kwargs = {"scale_min"}
    /\ outcome.kind = "TypeError"

\* the least / greatest entry of a non-empty finite array
IsLeast(x, a) == x \in Values(a) /\ \A y \in Values(a) : Le(x, y)

IsGreatest(x, a) == x \in Values(a) /\ \A y \in Values(a) : Le(y, x)

\* C7: in linear, log, sqrt and asinh scaling a bound given by the caller is
\* the bound used, and a bound not given is computed from the finite entries
\* alone (least / greatest entry; for sqrt the low / high percentile), so NaN
\* and infinite entries do not move the range.
C7_RangeResolvedPerBound ==
    (Returned /\ ran.method \in {"linear", "log", "sqrt", "asinh"}) =>
        LET kw  == call.kwargs
            fin == FiniteEntries(plane.pix)
        IN  /\ IF "scale_min" \in DOMAIN kw THEN outcome.lo = kw.scale_min
               ELSE IF ran.method = "sqrt"
                    THEN outcome.lo = percentile(fin, ran.args.percentiles[1])
                    ELSE IsLeast(outcome.lo, fin)
            /\ IF "scale_max" \in DOMAIN kw THEN outcome.hi = kw.scale_max
               ELSE IF ran.method = "sqrt"
                    THEN outcome.hi = percentile(fin, ran.args.percentiles[2])
                    ELSE IsGreatest(outcome.hi, fin)

\* linear scaling of an array holding NaN, +inf and -inf beside its finite
\* entries, with one bound given and one computed
C7_Witness ==
    /\ Returned
    /\ call.op = "scaling"
    /\ ran.method = "linear"
    /\ {NaN, PInf, NInf} \cap Values(plane.pix) # {}
    /\ PInf \in Values(plane.pix)
    /\ DOMAIN call.kwargs = {"scale_min"}
    /\ outcome.lo = Num(-1)
    /\ outcome.hi = Num(0)

\* C8: linear_scaling with scale_min < scale_max maps each finite entry x to
\* 0 when x <= scale_min, to 1 when x >= scale_max, and otherwise to the t
\* with x = scale_min + t * (scale_max - scale_min).
C8_LinearScalingFormula ==
    (Returned /\ call.op = "scaling" /\ ran.method = "linear"
              /\ Lt(outcome.lo, outcome.hi)) =>
        \A i \in DOMAIN plane.pix :
            LET x == plane.pix[i]
                t == outcome.value[i]
            IN  IsFin(x) =>
                    IF Le(x, outcome.lo) THEN t = Num(0)
                    ELSE IF Le(outcome.hi, x) THEN t = Num(1)
                    ELSE /\ IsFin(t)
                         /\ Add(outcome.lo, Mul(t, Sub(outcome.hi, outcome.lo))) = x

\* the spec's example scaled to the model's pixels: [-1, 0, 1] with bounds -1
\* and 1 gives [0, 1/2, 1]
C8_Witness ==
    /\ Returned
    /\ call.op = "scaling"
    /\ ran.method = "linear"
    /\ plane.pix = <<Num(-1), Num(0), Num(1)>>
    /\ ran.args.scale_min = Num(-1)
    /\ ran.args.scale_max = Num(1)
    /\ outcome.value = <<Num(0), Rat(1, 2), Num(1)>>

\* the call asinh_scaling([-1, 0, 1], scale_min=-1, scale_max=1, non_linear=1.0)
C9_Example ==
    /\ Returned
    /\ call.op = "scaling"
    /\ ran.method = "asinh"
    /\ plane.pix = <<Num(-1), Num(0), Num(1)>>
    /\ ran.args.scale_min = Num(-1)
    /\ ran.args.scale_max = Num(1)
    /\ ran.args.non_linear = Num(1)

\* C9 as stated: the example returns [0, 1/2, 1], the entry for input 0 at the
\* midpoint.
C9_MidpointAtHalf ==
    C9_Example => outcome.value = <<Num(0), Rat(1, 2), Num(1)>>

\* C9 amended: the example returns 0 for -1, 1 for 1 and, for 0, the value
\* arcsinh(1) / arcsinh(2), about 0.6105: above the midpoint, so the curve is
\* not symmetric about the centre input.
C9_AnchoredAtScaleMin ==
    C9_Example =>
        /\ outcome.value[1] = Num(0)
        /\ outcome.value[3] = Num(1)
        /\ Lt(Rat(610, 1000), outcome.value[2])
        /\ Lt(outcome.value[2], Rat(611, 1000))
        /\ Sub(outcome.value[2], outcome.value[1])
              # Sub(outcome.value[3], outcome.value[2])

C9_Witness == C9_Example /\ Lt(Rat(1, 2), outcome.value[2])

\* C10: no call, of a scaling method or of process_fits, changes the caller's
\* array or a field of the Processing instance.
C10_NoSideEffects ==
    [][/\ hdul' = hdul
       /\ download_dir' = download_dir
       /\ json_dir' = json_dir]_vars

\* a call returned an array that differs from its input, and the input is as
\* it was
C10_Witness ==
    /\ Returned
    /\ call.op = "scaling"
    /\ outcome.value # plane.pix
    /\ hdul.pix = plane.pix
    /\ download_dir = "../nebulanet/public/processed_png/"

===========================================================================
